---- MODULE Spec2Model ----
(***************************************************************************)
(* State-machine model of the CTS/RTS serial line monitor:                 *)
(*   src/src/cts_monitor.c   the monitoring engine (file-scope statics)    *)
(*   src/src/main.c          the command-line launcher and monitoring loop *)
(* The code is modelled as built with HAVE_LIBFTDI1 defined: line 177 of   *)
(* cts_monitor.c assigns using_ftdi outside the #ifdef, so no other build  *)
(* of the file compiles.                                                   *)
(*                                                                         *)
(* C strings are sequences of one-character strings.  Every library        *)
(* function is an operator from the state record (and the answers the      *)
(* operating system / hardware gives during the call) to the state record  *)
(* after the call; the actions apply them to the variables.                *)
(***************************************************************************)
EXTENDS Integers, Sequences, FiniteSets, TLC

VARIABLES
    \* file-scope statics of cts_monitor.c
    initialized, serial_fd, output_fp, current_config, last_state, start_time,
    irq_mode_active, ftdi_initialized, using_ftdi,
    \* operating-system resources behind the handles
    fd_open, file_open, ftdi_handle,
    \* hardware present on the machine
    usb_bus, tty_identity,
    \* what the most recent library call did
    op, arg, ret, emitted, syscalls, wrote_unset, crashed,
    \* main.c
    pc, argv, config, running, exit_code, outcome

libvars == <<initialized, serial_fd, output_fp, current_config, last_state, start_time,
             irq_mode_active, ftdi_initialized, using_ftdi,
             fd_open, file_open, ftdi_handle,
             op, arg, ret, emitted, syscalls, wrote_unset, crashed>>

\* the statics of cts_monitor.c and the resources behind them
LibState ==
    <<initialized, serial_fd, output_fp, current_config, last_state, start_time,
      irq_mode_active, ftdi_initialized, using_ftdi, fd_open, file_open, ftdi_handle>>

hwvars == <<usb_bus, tty_identity>>

mainvars == <<pc, argv, config, running, exit_code, outcome>>

vars == <<libvars, hwvars, mainvars>>

----------------------------------------------------------------------------
(* C strings *)

NUL == "\\0"

\* the null pointer, as the value of a char* or FILE* that points nowhere
NULLPTR == <<"(null)">>

CharAt(s, i) == IF i <= Len(s) THEN s[i] ELSE NUL

\* strncmp(s, t, n) == 0
StrNEq(s, t, n) ==
    \A i \in 1..n :
        (\A j \in 1..(i - 1) : CharAt(s, j) # NUL) => CharAt(s, i) = CharAt(t, i)

\* strcmp(s, t) == 0
StrEq(s, t) == s = t

DEV_TTYUSB == <<"/", "d", "e", "v", "/", "t", "t", "y", "U", "S", "B">>

DEV_TTYUSB0 == DEV_TTYUSB \o <<"0">>

DEV_TTYS0 == <<"/", "d", "e", "v", "/", "t", "t", "y", "S", "0">>

OUT_LOG == <<"o", "u", "t">>

----------------------------------------------------------------------------
(* Hardware and operating-system answers *)

\* USB identities: FTDI FT232R, FTDI FT4232, Silicon Labs CP2102
FT232R == [vid |-> 1027, pid |-> 24577]

FT4232 == [vid |-> 1027, pid |-> 24593]

CP2102 == [vid |-> 4292, pid |-> 60000]

\* The machines considered: the USB devices on the bus and the identity of
\* the adapter behind /dev/ttyUSB0.
Machines ==
    { [bus |-> {FT232R},          tty |-> FT232R],
      [bus |-> {CP2102},          tty |-> CP2102],
      [bus |-> {CP2102, FT232R},  tty |-> CP2102],
      [bus |-> {FT4232},          tty |-> FT4232] }

\* the four control lines
SignalStates == [cts : {0, 1}, rts : {0, 1}, dsr : {0, 1}, dtr : {0, 1}]

\* the line levels the hardware is driven to: all low, CTS alone, DSR alone,
\* all high.  Between two of them one, two, three or all four lines change.
Levels ==
    { l \in SignalStates :
        <<l.cts, l.rts, l.dsr, l.dtr>> \in
            {<<0, 0, 0, 0>>, <<1, 0, 0, 0>>, <<0, 0, 1, 0>>, <<1, 1, 1, 1>>} }

\* the modem-status word TIOCMGET returns for the line levels
\* (TIOCM_DTR 0x002, TIOCM_RTS 0x004, TIOCM_CTS 0x020, TIOCM_DSR 0x100)
StatusWord(l) == 2 * l.dtr + 4 * l.rts + 32 * l.cts + 256 * l.dsr

\* the pin byte ftdi_read_pins returns in bitbang mode for the line levels
PinByte(l) == 16 * l.cts + 32 * l.rts + 64 * l.dsr + 128 * l.dtr

\* (x & b) ? 1 : 0, for b a power of two
Bit(x, b) == IF (x \div b) % 2 = 1 THEN 1 ELSE 0

ZeroState == [cts |-> 0, rts |-> 0, dsr |-> 0, dtr |-> 0]

\* the answer to one backend read: the call fails, or succeeds with the lines
NoRead == [ok |-> FALSE, lines |-> ZeroState]

ReadAnswers == {NoRead} \cup [ok : {TRUE}, lines : Levels]

\* the answers during USB enumeration: libusb_init or libusb_get_device_list
\* fails, or the descriptors of `unreadable` cannot be read
DetectAnswers(bus) ==
    { [fail |-> f, unreadable |-> {}] : f \in {"libusb_init", "get_device_list"} }
    \cup { [fail |-> "none", unreadable |-> u] : u \in SUBSET bus }

NoDetect == [fail |-> "none", unreadable |-> {}]

\* the answers during the FTDI open: ftdi_init fails, the USB open is refused
\* (permission, chip already claimed), the mode-set fails, or all succeed and
\* the first ftdi_read_pins answers `read`
FtdiAnswers ==
    { [fail |-> f, read |-> NoRead] : f \in {"ftdi_init", "usb_open", "set_bitmode"} }
    \cup { [fail |-> "none", read |-> r] : r \in ReadAnswers }

NoFtdi == [fail |-> "ftdi_init", read |-> NoRead]

\* the answers during the standard open: the first call that fails, or none
\* of open/tcgetattr/tcsetattr/fopen fails and the first TIOCMGET answers `read`
StdAnswers ==
    { [fail |-> f, read |-> NoRead] : f \in {"open", "tcgetattr", "tcsetattr", "fopen"} }
    \cup { [fail |-> "none", read |-> r] : r \in ReadAnswers }

NoStd == [fail |-> "open", read |-> NoRead]

\* struct timespec: seconds and nanoseconds (0..999999999)
ZeroTime == [sec |-> 0, nsec |-> 0]

\* the readings of CLOCK_REALTIME cts_monitor_init can take (line 130); the
\* static start_time is zero before the first one
Times == {[sec |-> 1, nsec |-> 0], [sec |-> 2, nsec |-> 500000000]}

\* what a write through an unset or closed FILE*, or a second fclose of one,
\* does (undefined behaviour): the process dies, or the call comes back
\* having written nothing
UbOutcomes == {"crash", "lost"}

NoUb == "crash"

----------------------------------------------------------------------------
(* The state record *)

St ==
    [ initialized |-> initialized, serial_fd |-> serial_fd, output_fp |-> output_fp,
      current_config |-> current_config, last_state |-> last_state,
      start_time |-> start_time,
      irq_mode_active |-> irq_mode_active, ftdi_initialized |-> ftdi_initialized,
      using_ftdi |-> using_ftdi,
      fd_open |-> fd_open, file_open |-> file_open, ftdi_handle |-> ftdi_handle,
      op |-> op, arg |-> arg, ret |-> ret, emitted |-> emitted, syscalls |-> syscalls,
      wrote_unset |-> wrote_unset, crashed |-> crashed ]

Assign(t) ==
    \E r \in {t} :
        /\ initialized' = r.initialized
        /\ serial_fd' = r.serial_fd
        /\ output_fp' = r.output_fp
        /\ current_config' = r.current_config
        /\ last_state' = r.last_state
        /\ start_time' = r.start_time
        /\ irq_mode_active' = r.irq_mode_active
        /\ ftdi_initialized' = r.ftdi_initialized
        /\ using_ftdi' = r.using_ftdi
        /\ fd_open' = r.fd_open
        /\ file_open' = r.file_open
        /\ ftdi_handle' = r.ftdi_handle
        /\ op' = r.op
        /\ arg' = r.arg
        /\ ret' = r.ret
        /\ emitted' = r.emitted
        /\ syscalls' = r.syscalls
        /\ wrote_unset' = r.wrote_unset
        /\ crashed' = r.crashed

\* monitor_config_t (the fields the code reads)
NoConfig ==
    [serial_device |-> NULLPTR, poll_interval_us |-> 0, time_format |-> "ABSOLUTE",
     output_file |-> NULLPTR, verbose |-> FALSE, mode |-> "POLLING"]

\* the record at the entry of library call `name`: nothing written and no
\* system call made yet
Enter(s, name, cfg) ==
    [s EXCEPT !.op = name, !.arg = cfg, !.emitted = <<>>, !.syscalls = <<>>,
              !.wrote_unset = FALSE]

\* output_fp points at an open stream
DestValid(s) ==
    \/ s.output_fp = "stdout"
    \/ s.output_fp = "file" /\ s.file_open

----------------------------------------------------------------------------
(* cts_monitor.c *)

\* one call into the operating system or a device library is logged, with the
\* descriptor or product identifier it was given and whether it succeeded
Sys(s, fn, n, ok) == [s EXCEPT !.syscalls = Append(@, [fn |-> fn, arg |-> n, ok |-> ok])]

\* integer division and remainder of C: the quotient is truncated toward
\* zero and the remainder has the sign of the dividend (b > 0)
CDiv(a, b) == IF a >= 0 THEN a \div b ELSE 0 - ((0 - a) \div b)

CRem(a, b) == a - b * CDiv(a, b)

DigitChars == <<"0", "1", "2", "3", "4", "5", "6", "7", "8", "9">>

\* the decimal digits of n >= 0
RECURSIVE Digits(_)
Digits(n) ==
    IF n < 10 THEN <<DigitChars[n + 1]>>
    ELSE Digits(n \div 10) \o <<DigitChars[(n % 10) + 1]>>

RECURSIVE ZeroPad(_, _)
ZeroPad(ds, w) == IF Len(ds) >= w THEN ds ELSE ZeroPad(<<"0">> \o ds, w)

\* printf("%lld", n)
Fmt_lld(n) == IF n < 0 THEN <<"-">> \o Digits(0 - n) ELSE Digits(n)

\* printf("%06lld", n) and printf("%06ld", n): at least six characters, the
\* sign counted among them and the zeros put after it
Fmt_06lld(n) ==
    IF n < 0 THEN <<"-">> \o ZeroPad(Digits(0 - n), 5) ELSE ZeroPad(Digits(n), 6)

\* strftime(buffer, size, "%Y-%m-%d %H:%M:%S", localtime(&ts.tv_sec)): the
\* nineteen characters of the local calendar time, the digits left open
DateText ==
    <<"Y", "Y", "Y", "Y", "-", "M", "M", "-", "D", "D", " ",
      "h", "h", ":", "m", "m", ":", "s", "s">>

\* static void get_timestamp(char *buffer, size_t size), ts being what
\* clock_gettime answers at line 37: the state after the call and the buffer
get_timestamp(s, ts) ==
    LET s1 == Sys(s, "clock_gettime", ts, TRUE)
    IN IF s.current_config.time_format = "ABSOLUTE"
       THEN [s |-> s1, buffer |-> DateText \o <<".">> \o Fmt_06lld(CDiv(ts.nsec, 1000))]
       ELSE LET sec0 == ts.sec - s.start_time.sec
                nsec0 == ts.nsec - s.start_time.nsec
                diff == IF nsec0 < 0
                        THEN [sec |-> sec0 - 1, nsec |-> nsec0 + 1000000000]
                        ELSE [sec |-> sec0, nsec |-> nsec0]
                total_us == diff.sec * 1000000 + CDiv(diff.nsec, 1000)
            IN [s |-> s1,
                buffer |-> Fmt_lld(CDiv(total_us, 1000000)) \o <<".">>
                           \o Fmt_06lld(CRem(total_us, 1000000))]

\* static int read_signal_state(signal_state_t *state): TIOCMGET on serial_fd.
\* The ioctl fails on a descriptor that is -1 or closed, or when the driver
\* refuses.  Returns the state after the call, the return code and *state.
read_signal_state(s, io) ==
    IF s.serial_fd < 0 \/ ~s.fd_open \/ ~io.ok
    THEN [s |-> Sys(s, "ioctl", s.serial_fd, FALSE), rc |-> -1, state |-> ZeroState]
    ELSE LET status == StatusWord(io.lines)
         IN [s |-> Sys(s, "ioctl", s.serial_fd, TRUE), rc |-> 0,
             state |-> [cts |-> Bit(status, 32), rts |-> Bit(status, 4),
                        dsr |-> Bit(status, 256), dtr |-> Bit(status, 2)]]

\* fprintf(output_fp, ...): the line reaches the destination when output_fp
\* is an open stream; otherwise the behaviour is undefined (ub)
write_line(s, line, ub) ==
    IF s.crashed THEN s
    ELSE IF DestValid(s) THEN [s EXCEPT !.emitted = Append(@, line)]
    ELSE [s EXCEPT !.wrote_unset = TRUE, !.crashed = (ub = "crash")]

Banner(text) == [name |-> text, old |-> 0, new |-> 0, level |-> "", arrow |-> ""]

\* log_signal_change with the comparison of line 85 turned round
log_signal_change_arrow_swapped(s, signal_name, old_state, new_state, ub) ==
    LET state_str == IF new_state # 0 THEN "HIGH" ELSE "LOW"
        transition == IF old_state > new_state THEN "up" ELSE "down"
    IN write_line(s, [name |-> signal_name, old |-> old_state, new |-> new_state,
                      level |-> state_str, arrow |-> transition], ub)

\* static void log_signal_change(signal_name, old_state, new_state)
log_signal_change(s, signal_name, old_state, new_state, ub) ==
    LET state_str == IF new_state # 0 THEN "HIGH" ELSE "LOW"
        transition == IF old_state < new_state THEN "up" ELSE "down"
    IN write_line(s, [name |-> signal_name, old |-> old_state, new |-> new_state,
                      level |-> state_str, arrow |-> transition], ub)

\* static int setup_signal_io(void)
setup_signal_io(s) == [s EXCEPT !.irq_mode_active = TRUE, !.ret = 0]

\* static void cleanup_signal_io(void)
cleanup_signal_io(s) == [s EXCEPT !.irq_mode_active = FALSE]

\* the product identifiers cts_monitor_is_ftdi_device accepts:
\* 0x6001, 0x6010, 0x6011, 0x6014, 0x6015
DetectPids == {24577, 24592, 24593, 24596, 24597}

\* cts_monitor_is_ftdi_device without the test of the path prefix (line 448)
is_ftdi_device_any_path(s, device_path, d) ==
    IF d.fail = "libusb_init"
    THEN [s |-> Sys(s, "libusb_init", 0, FALSE), rc |-> -1]
    ELSE IF d.fail = "get_device_list"
    THEN [s |-> Sys(Sys(s, "libusb_init", 0, TRUE), "libusb_get_device_list", 0, FALSE),
          rc |-> -1]
    ELSE LET found_ftdi ==
                 \E desc \in usb_bus \ d.unreadable :
                     desc.vid = 1027 /\ desc.pid \in DetectPids
         IN [s |-> Sys(Sys(s, "libusb_init", 0, TRUE), "libusb_get_device_list", 0, TRUE),
             rc |-> IF found_ftdi THEN 1 ELSE 0]

\* int cts_monitor_is_ftdi_device(const char *device_path): the state after
\* the call and the return code
cts_monitor_is_ftdi_device(s, device_path, d) ==
    IF ~StrNEq(device_path, DEV_TTYUSB, 11) THEN [s |-> s, rc |-> 0]
    ELSE IF d.fail = "libusb_init"
    THEN [s |-> Sys(s, "libusb_init", 0, FALSE), rc |-> -1]
    ELSE IF d.fail = "get_device_list"
    THEN [s |-> Sys(Sys(s, "libusb_init", 0, TRUE), "libusb_get_device_list", 0, FALSE),
          rc |-> -1]
    ELSE LET found_ftdi ==
                 \E desc \in usb_bus \ d.unreadable :
                     desc.vid = 1027 /\ desc.pid \in DetectPids
         IN [s |-> Sys(Sys(s, "libusb_init", 0, TRUE), "libusb_get_device_list", 0, TRUE),
             rc |-> IF found_ftdi THEN 1 ELSE 0]

\* the product identifiers cts_monitor_init_ftdi tries, in order:
\* 0x6001, 0x6010, 0x6014, 0x6015
OpenPids == <<24577, 24592, 24596, 24597>>

\* ftdi_usb_open(&ftdi_ctx, vendor, product) >= 0
ftdi_usb_open(vendor, product, f) ==
    /\ f.fail # "usb_open"
    /\ \E dev \in usb_bus : dev.vid = vendor /\ dev.pid = product

\* cts_monitor_init_ftdi, lines 509-513: the opens are tried in order until
\* one succeeds
RECURSIVE try_usb_open(_, _, _)
try_usb_open(s, i, f) ==
    IF i > Len(OpenPids) THEN [s |-> s, opened |-> FALSE]
    ELSE IF ftdi_usb_open(1027, OpenPids[i], f)
    THEN [s |-> Sys(s, "ftdi_usb_open", OpenPids[i], TRUE), opened |-> TRUE]
    ELSE try_usb_open(Sys(s, "ftdi_usb_open", OpenPids[i], FALSE), i + 1, f)

\* int cts_monitor_init_ftdi(void)
cts_monitor_init_ftdi(s, f) ==
    IF s.ftdi_initialized THEN [s EXCEPT !.ret = 0]
    ELSE IF f.fail = "ftdi_init" THEN [Sys(s, "ftdi_init", 0, FALSE) EXCEPT !.ret = -1]
    ELSE LET o == try_usb_open(Sys(s, "ftdi_init", 0, TRUE), 1, f)
         IN IF ~o.opened
            THEN [Sys(o.s, "ftdi_deinit", 0, TRUE) EXCEPT !.ftdi_handle = "none", !.ret = -1]
            ELSE IF f.fail = "set_bitmode"
            THEN [Sys(Sys(Sys(o.s, "ftdi_set_bitmode", 0, FALSE),
                          "ftdi_usb_close", 0, TRUE), "ftdi_deinit", 0, TRUE)
                     EXCEPT !.ftdi_handle = "none", !.ret = -1]
            ELSE [Sys(o.s, "ftdi_set_bitmode", 0, TRUE)
                     EXCEPT !.ftdi_handle = "open", !.ftdi_initialized = TRUE,
                            !.using_ftdi = TRUE, !.ret = 0]

\* the pin decoding of cts_monitor_init (152-155) and
\* cts_monitor_update_ftdi (564-567)
PinsToState(pins) ==
    [cts |-> Bit(pins, 16), rts |-> Bit(pins, 32),
     dsr |-> Bit(pins, 64), dtr |-> Bit(pins, 128)]

\* cts_monitor_init, lines 176-249: the standard serial interface
cts_monitor_init_standard(s0, cfg, sd) ==
    LET s == [s0 EXCEPT !.using_ftdi = FALSE]
    IN IF sd.fail = "open"
       THEN [Sys(s, "open", 0, FALSE) EXCEPT !.serial_fd = -1, !.ret = -1]
       ELSE LET s1 == [Sys(s, "open", 0, TRUE) EXCEPT !.serial_fd = 3, !.fd_open = TRUE]
            IN IF sd.fail = "tcgetattr"
               THEN [Sys(Sys(s1, "tcgetattr", 3, FALSE), "close", 3, TRUE)
                        EXCEPT !.fd_open = FALSE, !.ret = -1]
               ELSE IF sd.fail = "tcsetattr"
               THEN [Sys(Sys(Sys(s1, "tcgetattr", 3, TRUE), "tcsetattr", 3, FALSE),
                         "close", 3, TRUE)
                        EXCEPT !.fd_open = FALSE, !.ret = -1]
               ELSE LET s2 == Sys(Sys(s1, "tcgetattr", 3, TRUE), "tcsetattr", 3, TRUE)
                    IN IF cfg.output_file # NULLPTR /\ sd.fail = "fopen"
                       THEN [Sys(Sys(s2, "fopen", 0, FALSE), "close", 3, TRUE)
                                EXCEPT !.output_fp = "NULL", !.fd_open = FALSE, !.ret = -1]
                       ELSE LET s3 == IF cfg.output_file # NULLPTR
                                      THEN [Sys(s2, "fopen", 0, TRUE)
                                               EXCEPT !.output_fp = "file",
                                                      !.file_open = TRUE]
                                      ELSE [s2 EXCEPT !.output_fp = "stdout"]
                                r == read_signal_state(s3, sd.read)
                            IN IF r.rc < 0
                               THEN LET s4 == IF r.s.output_fp # "stdout"
                                              THEN [Sys(r.s, "fclose", 0, TRUE)
                                                       EXCEPT !.file_open = FALSE]
                                              ELSE r.s
                                    IN [Sys(s4, "close", 3, TRUE)
                                           EXCEPT !.fd_open = FALSE, !.ret = -1]
                               ELSE LET s5 == [r.s EXCEPT !.last_state = r.state]
                                        s6 == IF cfg.verbose
                                              THEN write_line(
                                                     write_line(s5, Banner("Started"), NoUb),
                                                     Banner("Initial state"), NoUb)
                                              ELSE s5
                                    IN [s6 EXCEPT !.initialized = TRUE, !.ret = 0]

\* cts_monitor_init with a failed FTDI open treated as fatal instead of
\* falling through to the standard interface
init_ftdi_failure_fatal(s, cfg, d, f, sd, now) ==
    IF s.initialized THEN [s EXCEPT !.ret = 0]
    ELSE LET s1 == [s EXCEPT !.current_config = cfg, !.start_time = now]
             is_ftdi == cts_monitor_is_ftdi_device(s1, cfg.serial_device, d)
         IN IF is_ftdi.rc = 1
            THEN LET s3 == cts_monitor_init_ftdi(is_ftdi.s, f)
                 IN IF s3.ret = 0
                    THEN LET s4 == [Sys(s3, "ftdi_read_pins", 0, f.read.ok)
                                       EXCEPT !.using_ftdi = TRUE]
                             s5 == IF f.read.ok
                                   THEN [s4 EXCEPT !.last_state =
                                                      PinsToState(PinByte(f.read.lines))]
                                   ELSE s4
                         IN [s5 EXCEPT !.initialized = TRUE, !.ret = 0]
                    ELSE [s3 EXCEPT !.ret = -1]
            ELSE cts_monitor_init_standard(is_ftdi.s, cfg, sd)

\* cts_monitor_init without the early return of lines 121-124
init_without_guard(s, cfg, d, f, sd, now) ==
    LET s1 == [s EXCEPT !.current_config = cfg, !.start_time = now]
        is_ftdi == cts_monitor_is_ftdi_device(s1, cfg.serial_device, d)
    IN IF is_ftdi.rc = 1
       THEN LET s3 == cts_monitor_init_ftdi(is_ftdi.s, f)
            IN IF s3.ret = 0
               THEN LET s4 == [Sys(s3, "ftdi_read_pins", 0, f.read.ok)
                                  EXCEPT !.using_ftdi = TRUE]
                        s5 == IF f.read.ok
                              THEN [s4 EXCEPT !.last_state =
                                                 PinsToState(PinByte(f.read.lines))]
                              ELSE s4
                    IN [s5 EXCEPT !.initialized = TRUE, !.ret = 0]
               ELSE cts_monitor_init_standard(s3, cfg, sd)
       ELSE cts_monitor_init_standard(is_ftdi.s, cfg, sd)

\* int cts_monitor_init(const monitor_config_t *config)
cts_monitor_init(s, cfg, d, f, sd, now) ==
    IF s.initialized THEN [s EXCEPT !.ret = 0]
    ELSE LET s1 == [s EXCEPT !.current_config = cfg, !.start_time = now]
             is_ftdi == cts_monitor_is_ftdi_device(s1, cfg.serial_device, d)
         IN IF is_ftdi.rc = 1
            THEN LET s3 == cts_monitor_init_ftdi(is_ftdi.s, f)
                 IN IF s3.ret = 0
                    THEN LET s4 == [Sys(s3, "ftdi_read_pins", 0, f.read.ok)
                                       EXCEPT !.using_ftdi = TRUE]
                             s5 == IF f.read.ok
                                   THEN [s4 EXCEPT !.last_state =
                                                      PinsToState(PinByte(f.read.lines))]
                                   ELSE s4
                         IN [s5 EXCEPT !.initialized = TRUE, !.ret = 0]
                    ELSE cts_monitor_init_standard(s3, cfg, sd)
            ELSE cts_monitor_init_standard(is_ftdi.s, cfg, sd)

\* cts_monitor_update, lines 270-291: compare, log, store.  The store is not
\* reached when a write killed the process.
update_diff(s, current_state, ub) ==
    LET s1 == IF current_state.cts # s.last_state.cts
              THEN log_signal_change(s, "CTS", s.last_state.cts, current_state.cts, ub)
              ELSE s
        s2 == IF current_state.rts # s.last_state.rts
              THEN log_signal_change(s1, "RTS", s.last_state.rts, current_state.rts, ub)
              ELSE s1
        s3 == IF s.current_config.verbose /\ current_state.dsr # s.last_state.dsr
              THEN log_signal_change(s2, "DSR", s.last_state.dsr, current_state.dsr, ub)
              ELSE s2
        s4 == IF s.current_config.verbose /\ current_state.dtr # s.last_state.dtr
              THEN log_signal_change(s3, "DTR", s.last_state.dtr, current_state.dtr, ub)
              ELSE s3
    IN IF s4.crashed THEN s4 ELSE [s4 EXCEPT !.last_state = current_state, !.ret = 0]

\* the number of events_processed++ executed by the comparisons of
\* cts_monitor_process_irq_events (412-436) and cts_monitor_update_ftdi (569-593)
events_processed(old, new, verbose) ==
    (IF new.cts # old.cts THEN 1 ELSE 0)
    + (IF new.rts # old.rts THEN 1 ELSE 0)
    + (IF verbose /\ new.dsr # old.dsr THEN 1 ELSE 0)
    + (IF verbose /\ new.dtr # old.dtr THEN 1 ELSE 0)

\* cts_monitor_process_irq_events, lines 412-441
irq_diff(s, current_state, ub) ==
    LET s1 == IF current_state.cts # s.last_state.cts
              THEN log_signal_change(s, "CTS", s.last_state.cts, current_state.cts, ub)
              ELSE s
        s2 == IF current_state.rts # s.last_state.rts
              THEN log_signal_change(s1, "RTS", s.last_state.rts, current_state.rts, ub)
              ELSE s1
        s3 == IF s.current_config.verbose /\ current_state.dsr # s.last_state.dsr
              THEN log_signal_change(s2, "DSR", s.last_state.dsr, current_state.dsr, ub)
              ELSE s2
        s4 == IF s.current_config.verbose /\ current_state.dtr # s.last_state.dtr
              THEN log_signal_change(s3, "DTR", s.last_state.dtr, current_state.dtr, ub)
              ELSE s3
    IN IF s4.crashed THEN s4
       ELSE [s4 EXCEPT !.last_state = current_state,
                       !.ret = events_processed(s.last_state, current_state,
                                                s.current_config.verbose)]

\* cts_monitor_update_ftdi, lines 569-598
ftdi_diff(s, current_state, ub) ==
    LET s1 == IF current_state.cts # s.last_state.cts
              THEN log_signal_change(s, "CTS", s.last_state.cts, current_state.cts, ub)
              ELSE s
        s2 == IF current_state.rts # s.last_state.rts
              THEN log_signal_change(s1, "RTS", s.last_state.rts, current_state.rts, ub)
              ELSE s1
        s3 == IF s.current_config.verbose /\ current_state.dsr # s.last_state.dsr
              THEN log_signal_change(s2, "DSR", s.last_state.dsr, current_state.dsr, ub)
              ELSE s2
        s4 == IF s.current_config.verbose /\ current_state.dtr # s.last_state.dtr
              THEN log_signal_change(s3, "DTR", s.last_state.dtr, current_state.dtr, ub)
              ELSE s3
    IN IF s4.crashed THEN s4
       ELSE [s4 EXCEPT !.last_state = current_state,
                       !.ret = events_processed(s.last_state, current_state,
                                                s.current_config.verbose)]

\* cts_monitor_update_ftdi without the return of lines 554-560: the pin byte
\* of a failed read is taken as all lines low
update_ftdi_ignores_failed_read(s, io, ub) ==
    IF ~s.ftdi_initialized THEN [s EXCEPT !.ret = -1]
    ELSE IF ~io.ok
    THEN ftdi_diff(Sys(s, "ftdi_read_pins", 0, FALSE), PinsToState(0), ub)
    ELSE ftdi_diff(Sys(s, "ftdi_read_pins", 0, TRUE), PinsToState(PinByte(io.lines)), ub)

\* int cts_monitor_update_ftdi(void)
cts_monitor_update_ftdi(s, io, ub) ==
    IF ~s.ftdi_initialized THEN [s EXCEPT !.ret = -1]
    ELSE IF ~io.ok THEN [Sys(s, "ftdi_read_pins", 0, FALSE) EXCEPT !.ret = -1]
    ELSE ftdi_diff(Sys(s, "ftdi_read_pins", 0, TRUE), PinsToState(PinByte(io.lines)), ub)

\* int cts_monitor_update()
cts_monitor_update(s, io, ub) ==
    IF ~s.initialized THEN [s EXCEPT !.ret = -1]
    ELSE IF s.using_ftdi THEN cts_monitor_update_ftdi(s, io, ub)
    ELSE LET r == read_signal_state(s, io)
         IN IF r.rc < 0 THEN [r.s EXCEPT !.ret = -1]
            ELSE update_diff(r.s, r.state, ub)

\* int cts_monitor_process_irq_events(void)
cts_monitor_process_irq_events(s, io, ub) ==
    IF ~s.initialized \/ ~s.irq_mode_active THEN [s EXCEPT !.ret = -1]
    ELSE IF s.using_ftdi THEN cts_monitor_update_ftdi(s, io, ub)
    ELSE LET r == read_signal_state(s, io)
         IN IF r.rc < 0 THEN [r.s EXCEPT !.ret = -1]
            ELSE irq_diff(r.s, r.state, ub)

\* int cts_monitor_get_state(signal_state_t *state)
cts_monitor_get_state(s, io) ==
    IF ~s.initialized THEN [s EXCEPT !.ret = -1]
    ELSE LET r == read_signal_state(s, io)
         IN [r.s EXCEPT !.ret = r.rc]

\* cts_monitor_start_irq without the test of the configured mode (lines 353-358)
start_irq_ignores_mode(s) ==
    IF ~s.initialized THEN [s EXCEPT !.ret = -1]
    ELSE IF s.irq_mode_active THEN [s EXCEPT !.ret = 0]
    ELSE LET s1 == setup_signal_io(s)
         IN IF s1.ret < 0 THEN [s1 EXCEPT !.ret = -1] ELSE [s1 EXCEPT !.ret = 0]

\* int cts_monitor_start_irq(void)
cts_monitor_start_irq(s) ==
    IF ~s.initialized THEN [s EXCEPT !.ret = -1]
    ELSE IF s.current_config.mode # "IRQ" THEN [s EXCEPT !.ret = -1]
    ELSE IF s.irq_mode_active THEN [s EXCEPT !.ret = 0]
    ELSE LET s1 == setup_signal_io(s)
         IN IF s1.ret < 0 THEN [s1 EXCEPT !.ret = -1] ELSE [s1 EXCEPT !.ret = 0]

\* int cts_monitor_stop_irq(void)
cts_monitor_stop_irq(s) ==
    IF ~s.irq_mode_active THEN [s EXCEPT !.ret = 0]
    ELSE [cleanup_signal_io(s) EXCEPT !.ret = 0]

\* cts_monitor_cleanup_ftdi that resets its flags without the calls of lines
\* 607-608
cleanup_ftdi_leaves_device_open(s) ==
    IF ~s.ftdi_initialized THEN s
    ELSE [s EXCEPT !.ftdi_initialized = FALSE, !.using_ftdi = FALSE]

\* void cts_monitor_cleanup_ftdi(void)
cts_monitor_cleanup_ftdi(s) ==
    IF ~s.ftdi_initialized THEN s
    ELSE [Sys(Sys(s, "ftdi_usb_close", 0, s.ftdi_handle = "open"),
              "ftdi_deinit", 0, s.ftdi_handle = "open")
             EXCEPT !.ftdi_handle = "none", !.ftdi_initialized = FALSE,
                    !.using_ftdi = FALSE]

\* cts_monitor_cleanup without the early return of lines 297-299
cleanup_without_guard(s, ub) ==
    LET s1 == IF s.irq_mode_active THEN cts_monitor_stop_irq(s) ELSE s
        s2 == IF s1.using_ftdi THEN cts_monitor_cleanup_ftdi(s1) ELSE s1
        s3 == IF s2.current_config.verbose
              THEN write_line(s2, Banner("Stopped"), ub)
              ELSE s2
        s4 == IF s3.serial_fd >= 0
              THEN [Sys(s3, "close", s3.serial_fd, s3.fd_open)
                       EXCEPT !.fd_open = FALSE, !.serial_fd = -1]
              ELSE s3
        s5 == IF s4.output_fp # "NULL" /\ s4.output_fp # "stdout"
              THEN IF s4.file_open
                   THEN [Sys(s4, "fclose", 0, TRUE)
                            EXCEPT !.file_open = FALSE, !.output_fp = "NULL"]
                   ELSE [Sys(s4, "fclose", 0, FALSE)
                            EXCEPT !.output_fp = "NULL", !.crashed = (ub = "crash")]
              ELSE s4
    IN IF s3.crashed THEN s3
       ELSE IF s5.crashed THEN s5
       ELSE [s5 EXCEPT !.initialized = FALSE, !.ret = 0]

\* void cts_monitor_cleanup(): a void function, ret is 0 once it returns.
\* close() of a descriptor that is not open fails with EBADF; fclose() of a
\* stream that is already closed is undefined (ub).
cts_monitor_cleanup(s, ub) ==
    IF ~s.initialized THEN [s EXCEPT !.ret = 0]
    ELSE LET s1 == IF s.irq_mode_active THEN cts_monitor_stop_irq(s) ELSE s
             s2 == IF s1.using_ftdi THEN cts_monitor_cleanup_ftdi(s1) ELSE s1
             s3 == IF s2.current_config.verbose
                   THEN write_line(s2, Banner("Stopped"), ub)
                   ELSE s2
             s4 == IF s3.serial_fd >= 0
                   THEN [Sys(s3, "close", s3.serial_fd, s3.fd_open)
                            EXCEPT !.fd_open = FALSE, !.serial_fd = -1]
                   ELSE s3
             s5 == IF s4.output_fp # "NULL" /\ s4.output_fp # "stdout"
                   THEN IF s4.file_open
                        THEN [Sys(s4, "fclose", 0, TRUE)
                                 EXCEPT !.file_open = FALSE, !.output_fp = "NULL"]
                        ELSE [Sys(s4, "fclose", 0, FALSE)
                                 EXCEPT !.output_fp = "NULL", !.crashed = (ub = "crash")]
                   ELSE s4
         IN IF s3.crashed THEN s3
            ELSE IF s5.crashed THEN s5
            ELSE [s5 EXCEPT !.initialized = FALSE, !.ret = 0]

----------------------------------------------------------------------------
(* The library driven by an arbitrary caller of the lifecycle interface *)

\* the configurations a caller holds.  cts_monitor.c stores the interval and
\* never reads it, and the time format only selects the text of the
\* timestamp: the short interval is tried with both devices, one format is.
Configs ==
    { c \in [serial_device : {DEV_TTYUSB0, DEV_TTYS0}, poll_interval_us : {50, 1000},
             time_format : {"ABSOLUTE"}, output_file : {NULLPTR, OUT_LOG},
             verbose : BOOLEAN, mode : {"POLLING", "IRQ"}] :
        c.poll_interval_us = 50 =>
            (c.output_file = NULLPTR /\ ~c.verbose /\ c.mode = "POLLING") }

\* a configuration that differs from c in every field
OtherConfig(c) ==
    [serial_device |-> IF c.serial_device = DEV_TTYS0 THEN DEV_TTYUSB0 ELSE DEV_TTYS0,
     poll_interval_us |-> IF c.poll_interval_us = 1000 THEN 50 ELSE 1000,
     time_format |-> IF c.time_format = "ABSOLUTE" THEN "RELATIVE" ELSE "ABSOLUTE",
     output_file |-> IF c.output_file = NULLPTR THEN OUT_LOG ELSE NULLPTR,
     verbose |-> ~c.verbose,
     mode |-> IF c.mode = "IRQ" THEN "POLLING" ELSE "IRQ"]

\* the library record of a process that has made no call: the statics at
\* their initializers (cts_monitor.c:20-31) and no resource held
Fresh ==
    [ initialized |-> FALSE, serial_fd |-> -1, output_fp |-> "NULL",
      current_config |-> NoConfig, last_state |-> ZeroState, start_time |-> ZeroTime,
      irq_mode_active |-> FALSE, ftdi_initialized |-> FALSE, using_ftdi |-> FALSE,
      fd_open |-> FALSE, file_open |-> FALSE, ftdi_handle |-> "none",
      op |-> "none", arg |-> NoConfig, ret |-> 0, emitted |-> <<>>, syscalls |-> <<>>,
      wrote_unset |-> FALSE, crashed |-> FALSE ]

\* the statics as the loader zero-initializes them, with their initializers
InitLib ==
    /\ initialized = FALSE
    /\ serial_fd = -1
    /\ output_fp = "NULL"
    /\ current_config = NoConfig
    /\ last_state = ZeroState
    /\ start_time = ZeroTime
    /\ irq_mode_active = FALSE
    /\ ftdi_initialized = FALSE
    /\ using_ftdi = FALSE
    /\ fd_open = FALSE
    /\ file_open = FALSE
    /\ ftdi_handle = "none"
    /\ op = "none"
    /\ arg = NoConfig
    /\ ret = 0
    /\ emitted = <<>>
    /\ syscalls = <<>>
    /\ wrote_unset = FALSE
    /\ crashed = FALSE

InitHw == \E m \in Machines : usb_bus = m.bus /\ tty_identity = m.tty

\* the caller holds one configuration for the run
Init ==
    /\ InitLib
    /\ InitHw
    /\ pc = "api"
    /\ argv = <<>>
    /\ config \in Configs
    \* a port that is not a USB adapter: the bus is never looked at for it, one
    \* machine (with an FTDI chip on the bus) stands for all
    /\ ~StrNEq(config.serial_device, DEV_TTYUSB, 11) => usb_bus = {FT232R}
    /\ running = TRUE
    /\ exit_code = -1
    /\ outcome = "none"

\* The answers cts_monitor_init consults in state s for configuration cfg;
\* an answer the call never asks for is fixed, so that it is not enumerated.
DetectFor(s, cfg) ==
    IF ~s.initialized /\ StrNEq(cfg.serial_device, DEV_TTYUSB, 11)
    THEN DetectAnswers(usb_bus) ELSE {NoDetect}

FtdiFor(s, cfg, d) ==
    IF ~s.initialized /\ cts_monitor_is_ftdi_device(s, cfg.serial_device, d).rc = 1
    THEN FtdiAnswers ELSE {NoFtdi}

StdFor(s, cfg, d, f) ==
    IF /\ ~s.initialized
       /\ \/ cts_monitor_is_ftdi_device(s, cfg.serial_device, d).rc # 1
          \/ cts_monitor_init_ftdi(s, f).ret # 0
    THEN StdAnswers ELSE {NoStd}

\* the answers of the backend read a call in state s asks for
ReadFor(s, needs_irq) ==
    IF s.initialized /\ (needs_irq => s.irq_mode_active) THEN ReadAnswers ELSE {NoRead}

\* the outcomes of undefined behaviour a call can meet in state s: none
\* while output_fp is an open stream
UbFor(s) == IF DestValid(s) THEN {NoUb} ELSE UbOutcomes

\* cts_monitor_init(&cfg) with every answer the system can give
InitCall(cfg) ==
    \E d \in DetectFor(St, cfg) :
      \E f \in FtdiFor(St, cfg, d) :
        \E sd \in StdFor(St, cfg, d, f) :
          \E now \in Times :
            Assign(cts_monitor_init(Enter(St, "init", cfg), cfg, d, f, sd, now))

UpdateCall ==
    \E io \in ReadFor(St, FALSE) : \E ub \in UbFor(St) :
        Assign(cts_monitor_update(Enter(St, "update", NoConfig), io, ub))

ProcessIrqEventsCall ==
    \E io \in ReadFor(St, TRUE) : \E ub \in UbFor(St) :
        Assign(cts_monitor_process_irq_events(
                   Enter(St, "process_irq_events", NoConfig), io, ub))

StartIrqCall == Assign(cts_monitor_start_irq(Enter(St, "start_irq", NoConfig)))

CleanupCall ==
    \E ub \in UbFor(St) :
        Assign(cts_monitor_cleanup(Enter(St, "cleanup", NoConfig), ub))

\* the caller is between two library calls and has taken the result of the
\* last one
Idle == pc = "api" /\ ~crashed /\ op = "none"

\* the caller takes the return value and the output of the call that just
\* returned; nothing of them is kept by the library
CallerResumes ==
    /\ pc = "api"
    /\ ~crashed
    /\ op # "none"
    /\ op' = "none"
    /\ arg' = NoConfig
    /\ ret' = 0
    /\ emitted' = <<>>
    /\ syscalls' = <<>>
    /\ wrote_unset' = FALSE
    /\ UNCHANGED <<LibState, crashed, hwvars, mainvars>>

\* an initialized controller may be handed a different configuration
CallInit ==
    /\ Idle
    /\ \E cfg \in {config} \cup (IF initialized THEN {OtherConfig(config)} ELSE {}) :
           InitCall(cfg)
    /\ UNCHANGED <<hwvars, mainvars>>

CallUpdate == Idle /\ UpdateCall /\ UNCHANGED <<hwvars, mainvars>>

CallProcessIrqEvents == Idle /\ ProcessIrqEventsCall /\ UNCHANGED <<hwvars, mainvars>>

CallGetState ==
    /\ Idle
    /\ \E io \in ReadAnswers :
           Assign(cts_monitor_get_state(Enter(St, "get_state", NoConfig), io))
    /\ UNCHANGED <<hwvars, mainvars>>

CallStartIrq == Idle /\ StartIrqCall /\ UNCHANGED <<hwvars, mainvars>>

CallStopIrq ==
    /\ Idle
    /\ Assign(cts_monitor_stop_irq(Enter(St, "stop_irq", NoConfig)))
    /\ UNCHANGED <<hwvars, mainvars>>

CallCleanup == Idle /\ CleanupCall /\ UNCHANGED <<hwvars, mainvars>>

Next ==
    \/ CallInit
    \/ CallUpdate
    \/ CallProcessIrqEvents
    \/ CallGetState
    \/ CallStartIrq
    \/ CallStopIrq
    \/ CallCleanup
    \/ CallerResumes

Spec == Init /\ [][Next]_vars

----------------------------------------------------------------------------
(* The library driven through every function cts_monitor.h declares: the
   lifecycle interface and the four FTDI functions of lines 109-133 *)

\* cts_monitor_is_ftdi_device(path)
CallIsFtdiDevice ==
    /\ Idle
    /\ \E path \in {DEV_TTYUSB0, DEV_TTYS0} :
         \E d \in (IF StrNEq(path, DEV_TTYUSB, 11) THEN DetectAnswers(usb_bus)
                   ELSE {NoDetect}) :
           LET r == cts_monitor_is_ftdi_device(Enter(St, "is_ftdi_device", NoConfig),
                                               path, d)
           IN Assign([r.s EXCEPT !.ret = r.rc])
    /\ UNCHANGED <<hwvars, mainvars>>

\* cts_monitor_init_ftdi()
CallInitFtdi ==
    /\ Idle
    /\ \E f \in (IF ftdi_initialized THEN {NoFtdi}
                 ELSE {a \in FtdiAnswers : a.read = NoRead}) :
           Assign(cts_monitor_init_ftdi(Enter(St, "init_ftdi", NoConfig), f))
    /\ UNCHANGED <<hwvars, mainvars>>

\* cts_monitor_update_ftdi()
CallUpdateFtdi ==
    /\ Idle
    /\ \E io \in (IF ftdi_initialized THEN ReadAnswers ELSE {NoRead}) :
         \E ub \in UbFor(St) :
           Assign(cts_monitor_update_ftdi(Enter(St, "update_ftdi", NoConfig), io, ub))
    /\ UNCHANGED <<hwvars, mainvars>>

\* cts_monitor_cleanup_ftdi(): a void function, ret is 0 once it returns
CallCleanupFtdi ==
    /\ Idle
    /\ Assign([cts_monitor_cleanup_ftdi(Enter(St, "cleanup_ftdi", NoConfig))
                  EXCEPT !.ret = 0])
    /\ UNCHANGED <<hwvars, mainvars>>

NextApi ==
    \/ CallInit
    \/ CallUpdate
    \/ CallProcessIrqEvents
    \/ CallGetState
    \/ CallStartIrq
    \/ CallStopIrq
    \/ CallCleanup
    \/ CallIsFtdiDevice
    \/ CallInitFtdi
    \/ CallUpdateFtdi
    \/ CallCleanupFtdi
    \/ CallerResumes

SpecApi == Init /\ [][NextApi]_vars

----------------------------------------------------------------------------
(* The timestamp of an initialized controller: get_timestamp, which
   log_signal_change and the banners call, with every reading of the clock *)

\* the largest reading of the clock, in seconds
MaxSec == 2

\* the nanosecond parts tried: the ends of the range, both sides of a
\* microsecond and the middle
Nanos == {0, 1, 999, 1000, 500000000, 999999000, 999999999}

\* CLOCK_REALTIME is set by the administrator and by NTP: a later reading
\* may be smaller than an earlier one
Timespecs == [sec : 0..MaxSec, nsec : Nanos]

\* /dev/ttyS0 logged to stdout, with either time format
TimeConfigs ==
    { [serial_device |-> DEV_TTYS0, poll_interval_us |-> 1000, time_format |-> tf,
       output_file |-> NULLPTR, verbose |-> FALSE, mode |-> "POLLING"] :
          tf \in {"ABSOLUTE", "RELATIVE"} }

\* the controller after a successful cts_monitor_init of a fresh process that
\* read the clock as `now`, the caller having taken the result
InitTime ==
    /\ \E cfg \in TimeConfigs : \E now \in Timespecs :
         \E r \in {cts_monitor_init(
                       Fresh,
                       cfg, NoDetect, NoFtdi,
                       [fail |-> "none", read |-> [ok |-> TRUE, lines |-> ZeroState]],
                       now)} :
             /\ initialized = r.initialized
             /\ serial_fd = r.serial_fd
             /\ output_fp = r.output_fp
             /\ current_config = r.current_config
             /\ last_state = r.last_state
             /\ start_time = r.start_time
             /\ irq_mode_active = r.irq_mode_active
             /\ ftdi_initialized = r.ftdi_initialized
             /\ using_ftdi = r.using_ftdi
             /\ fd_open = r.fd_open
             /\ file_open = r.file_open
             /\ ftdi_handle = r.ftdi_handle
             /\ crashed = r.crashed
             /\ config = cfg
    /\ op = "none"
    /\ arg = NoConfig
    /\ ret = 0
    /\ emitted = <<>>
    /\ syscalls = <<>>
    /\ wrote_unset = FALSE
    /\ usb_bus = {FT232R}
    /\ tty_identity = FT232R
    /\ pc = "api"
    /\ argv = <<>>
    /\ running = TRUE
    /\ exit_code = -1
    /\ outcome = "none"

\* get_timestamp(timestamp, sizeof(timestamp)) as log_signal_change calls it
\* at line 82: `emitted` shows the buffer it filled
CallGetTimestamp ==
    /\ Idle
    /\ initialized
    /\ \E ts \in Timespecs :
         \E r \in {get_timestamp(Enter(St, "get_timestamp", NoConfig), ts)} :
             Assign([r.s EXCEPT !.emitted = <<r.buffer>>])
    /\ UNCHANGED <<hwvars, mainvars>>

NextTime ==
    \/ CallGetTimestamp
    \/ CallerResumes

SpecTime == InitTime /\ [][NextTime]_vars

----------------------------------------------------------------------------
(* main.c *)

\* the command-line words tried
Tokens ==
    { <<"-", "h">>, <<"-", "v">>, <<"-", "m">>, <<"i", "r", "q">>,
      <<"-", "i">>, <<"5", "0">>, <<"1", "0", "0", "0">>,
      <<"-", "f">>, <<"r", "e", "l">>, <<"-", "o">>, OUT_LOG,
      DEV_TTYUSB0, DEV_TTYS0, <<"-", "x">> }

\* the longest command line tried (argv[1..])
MaxArgs == 3

RECURSIVE SeqsUpTo(_, _)
SeqsUpTo(S, n) ==
    IF n = 0 THEN {<<>>}
    ELSE LET shorter == SeqsUpTo(S, n - 1)
         IN shorter \cup {Append(s, x) : s \in shorter, x \in S}

Digit(c) ==
    CASE c = "0" -> 0 [] c = "1" -> 1 [] c = "2" -> 2 [] c = "3" -> 3 [] c = "4" -> 4
      [] c = "5" -> 5 [] c = "6" -> 6 [] c = "7" -> 7 [] c = "8" -> 8 [] c = "9" -> 9
      [] OTHER -> -1

RECURSIVE AtoiDigits(_, _, _)
AtoiDigits(s, i, acc) ==
    IF i > Len(s) \/ Digit(s[i]) < 0 THEN acc
    ELSE AtoiDigits(s, i + 1, 10 * acc + Digit(s[i]))

\* atoi: an optional sign, then the leading decimal digits; 0 when there are none
atoi(s) ==
    IF CharAt(s, 1) = "-" THEN 0 - AtoiDigits(s, 2, 0)
    ELSE IF CharAt(s, 1) = "+" THEN AtoiDigits(s, 2, 0)
    ELSE AtoiDigits(s, 1, 0)

EXIT_SUCCESS == 0

EXIT_FAILURE == 1

\* main, lines 49-54: the defaults
DefaultArgs ==
    [serial_device |-> NULLPTR, poll_interval_us |-> 1000, time_format |-> "ABSOLUTE",
     output_file |-> NULLPTR, verbose |-> FALSE, mode |-> "POLLING"]

\* main, lines 57-138: the argument loop from argv[i] on, and the check that
\* a device was named.  Returns the exit code (-1: go on) and the settings.
RECURSIVE ParseArgs(_, _, _)
ParseArgs(args, i, a) ==
    IF i > Len(args)
    THEN IF a.serial_device = NULLPTR
         THEN [exit |-> EXIT_FAILURE, help |-> FALSE, cfg |-> a]
         ELSE [exit |-> -1, help |-> FALSE, cfg |-> a]
    ELSE LET w == args[i]
             more == i + 1 <= Len(args)
             bad == [exit |-> EXIT_FAILURE, help |-> FALSE, cfg |-> a]
         IN IF StrEq(w, <<"-", "h">>)
            THEN [exit |-> EXIT_SUCCESS, help |-> TRUE, cfg |-> a]
            ELSE IF StrEq(w, <<"-", "v">>)
            THEN ParseArgs(args, i + 1, [a EXCEPT !.verbose = TRUE])
            ELSE IF StrEq(w, <<"-", "m">>)
            THEN IF ~more THEN bad
                 ELSE IF StrEq(args[i + 1], <<"p", "o", "l", "l">>)
                 THEN ParseArgs(args, i + 2, [a EXCEPT !.mode = "POLLING"])
                 ELSE IF StrEq(args[i + 1], <<"i", "r", "q">>)
                 THEN ParseArgs(args, i + 2, [a EXCEPT !.mode = "IRQ"])
                 ELSE bad
            ELSE IF StrEq(w, <<"-", "i">>)
            THEN IF ~more THEN bad
                 ELSE IF atoi(args[i + 1]) < 100 THEN bad
                 ELSE ParseArgs(args, i + 2,
                                [a EXCEPT !.poll_interval_us = atoi(args[i + 1])])
            ELSE IF StrEq(w, <<"-", "f">>)
            THEN IF ~more THEN bad
                 ELSE IF StrEq(args[i + 1], <<"a", "b", "s">>)
                 THEN ParseArgs(args, i + 2, [a EXCEPT !.time_format = "ABSOLUTE"])
                 ELSE IF StrEq(args[i + 1], <<"r", "e", "l">>)
                 THEN ParseArgs(args, i + 2, [a EXCEPT !.time_format = "RELATIVE"])
                 ELSE bad
            ELSE IF StrEq(w, <<"-", "o">>)
            THEN IF ~more THEN bad
                 ELSE ParseArgs(args, i + 2, [a EXCEPT !.output_file = args[i + 1]])
            ELSE IF CharAt(w, 1) # "-"
            THEN IF a.serial_device = NULLPTR
                 THEN ParseArgs(args, i + 1, [a EXCEPT !.serial_device = w])
                 ELSE bad
            ELSE bad

InitMain ==
    /\ InitLib
    /\ InitHw
    /\ pc = "parse"
    /\ argv \in SeqsUpTo(Tokens, MaxArgs)
    /\ config = NoConfig
    /\ running = TRUE
    /\ exit_code = -1
    /\ outcome = "none"

\* lines 57-153: parse, install the signal handlers, build the configuration
MainParse ==
    /\ pc = "parse"
    /\ LET r == ParseArgs(argv, 1, DefaultArgs)
       IN IF r.exit >= 0
          THEN /\ pc' = "exit"
               /\ exit_code' = r.exit
               /\ outcome' = IF r.help THEN "help" ELSE "config_error"
               /\ config' = config
          ELSE /\ pc' = "init"
               /\ config' = r.cfg
               /\ UNCHANGED <<exit_code, outcome>>
    /\ argv' = <<>>
    /\ UNCHANGED <<libvars, hwvars, running>>

\* signal_handler, once installed (lines 141-142), on SIGINT or SIGTERM
Signal ==
    /\ pc \in {"init", "start_irq", "loop", "cleanup"}
    /\ running
    /\ running' = FALSE
    /\ UNCHANGED <<libvars, hwvars, pc, argv, config, exit_code, outcome>>

\* lines 155-158
MainInit ==
    /\ pc = "init"
    /\ InitCall(config)
    /\ IF ret' # 0
       THEN pc' = "exit" /\ exit_code' = EXIT_FAILURE /\ outcome' = "init_failed"
       ELSE /\ pc' = IF config.mode = "IRQ" THEN "start_irq" ELSE "loop"
            /\ UNCHANGED <<exit_code, outcome>>
    /\ UNCHANGED <<hwvars, argv, config, running>>

\* lines 177-183: on failure cts_monitor_cleanup runs before the return
MainStartIrq ==
    /\ pc = "start_irq"
    /\ LET t == cts_monitor_start_irq(Enter(St, "start_irq", NoConfig))
       IN IF t.ret # 0
          THEN /\ \E ub \in UbFor(t) :
                     Assign(cts_monitor_cleanup(Enter(t, "cleanup", NoConfig), ub))
               /\ IF crashed'
                  THEN pc' = "killed" /\ UNCHANGED exit_code
                  ELSE pc' = "exit" /\ exit_code' = EXIT_FAILURE
               /\ outcome' = "irq_start_failed"
          ELSE /\ Assign(t)
               /\ pc' = "loop"
               /\ UNCHANGED <<exit_code, outcome>>
    /\ UNCHANGED <<hwvars, argv, config, running>>

\* a monitoring loop that goes round again after a failed call
loop_retries_failed_read ==
    /\ pc = "loop"
    /\ running
    /\ IF config.mode = "POLLING" THEN UpdateCall ELSE ProcessIrqEventsCall
    /\ pc' = IF crashed' THEN "killed" ELSE "loop"
    /\ outcome' = IF crashed' THEN "killed" ELSE outcome
    /\ UNCHANGED <<hwvars, argv, config, running, exit_code>>

\* lines 186-204: one iteration of the monitoring loop
MainLoop ==
    /\ pc = "loop"
    /\ running
    /\ IF config.mode = "POLLING"
       THEN /\ UpdateCall
            /\ pc' = IF crashed' THEN "killed"
                     ELSE IF ret' # 0 THEN "cleanup" ELSE "loop"
            /\ outcome' = IF crashed' THEN "killed"
                          ELSE IF ret' < 0 THEN "read_failure"
                          ELSE IF ret' # 0 THEN "update_nonzero"
                          ELSE outcome
       ELSE /\ ProcessIrqEventsCall
            /\ pc' = IF crashed' THEN "killed"
                     ELSE IF ret' < 0 THEN "cleanup" ELSE "loop"
            /\ outcome' = IF crashed' THEN "killed"
                          ELSE IF ret' < 0 THEN "read_failure"
                          ELSE outcome
    /\ UNCHANGED <<hwvars, argv, config, running, exit_code>>

\* a loop exit that returns from main without the call of line 207
loop_exit_skips_cleanup ==
    /\ pc = "loop"
    /\ ~running
    /\ pc' = "exit"
    /\ outcome' = "stop"
    /\ exit_code' = EXIT_SUCCESS
    /\ UNCHANGED <<libvars, hwvars, argv, config, running>>

\* line 186: the loop condition fails once a signal has cleared `running`
MainLoopExit ==
    /\ pc = "loop"
    /\ ~running
    /\ pc' = "cleanup"
    /\ outcome' = "stop"
    /\ UNCHANGED <<libvars, hwvars, argv, config, running, exit_code>>

\* lines 206-213
MainCleanup ==
    /\ pc = "cleanup"
    /\ CleanupCall
    /\ IF crashed'
       THEN pc' = "killed" /\ UNCHANGED exit_code
       ELSE pc' = "exit" /\ exit_code' = EXIT_SUCCESS
    /\ UNCHANGED <<hwvars, argv, config, running, outcome>>

NextMain ==
    \/ MainParse
    \/ Signal
    \/ MainInit
    \/ MainStartIrq
    \/ MainLoop
    \/ MainLoopExit
    \/ MainCleanup

SpecMain == InitMain /\ [][NextMain]_vars

\* the configurations main can build: lines 81-92 keep the interval at 100 or
\* more
MainConfigs == {c \in Configs : c.poll_interval_us >= 100}

\* main at line 155: the arguments are parsed, the handlers are installed and
\* the configuration is built
InitRun ==
    /\ InitLib
    /\ InitHw
    /\ pc = "init"
    /\ argv = <<>>
    /\ config \in MainConfigs
    /\ running = TRUE
    /\ exit_code = -1
    /\ outcome = "none"

NextRun ==
    \/ Signal
    \/ MainInit
    \/ MainStartIrq
    \/ MainLoop
    \/ MainLoopExit
    \/ MainCleanup

\* the run of main after its arguments are accepted.  cts_monitor_start_irq,
\* the test of `running` and cts_monitor_cleanup make no blocking call, so
\* main always gets past them; nothing forces a signal to arrive or a read in
\* the loop to return.
SpecRun ==
    /\ InitRun
    /\ [][NextRun]_vars
    /\ WF_vars(MainStartIrq)
    /\ WF_vars(MainLoopExit)
    /\ WF_vars(MainCleanup)

----------------------------------------------------------------------------
(* Properties *)

\* the last library call made system call fn
MadeCall(fn) == \E i \in 1..Len(syscalls) : syscalls[i].fn = fn

SucceededCall(fn) == \E i \in 1..Len(syscalls) : syscalls[i].fn = fn /\ syscalls[i].ok

FailedCall(fn) == \E i \in 1..Len(syscalls) : syscalls[i].fn = fn /\ ~syscalls[i].ok

\* the last call was a cts_monitor_init that found the controller
\* uninitialized: it went past line 124 and made at least one system call
InitRan == op = "init" /\ syscalls # <<>>

\* the last call read a sample from a backend
ReadSucceeded == SucceededCall("ioctl") \/ SucceededCall("ftdi_read_pins")

UsbPath(path) == StrNEq(path, DEV_TTYUSB, 11)

\* the names of the lines in e, in order
EventNames(e) == [i \in 1..Len(e) |-> e[i].name]

\* the reported fields that differ between old and new, in the order CTS, RTS,
\* DSR, DTR
ReportedChanges(old, new, verbose) ==
    (IF old.cts # new.cts THEN <<"CTS">> ELSE <<>>)
    \o (IF old.rts # new.rts THEN <<"RTS">> ELSE <<>>)
    \o (IF verbose /\ old.dsr # new.dsr THEN <<"DSR">> ELSE <<>>)
    \o (IF verbose /\ old.dtr # new.dtr THEN <<"DTR">> ELSE <<>>)

HasEvent(e, n) == \E i \in 1..Len(e) : e[i].name = n

\* C1: a cts_monitor_init that runs and does not commit to the FTDI backend
\* (detection is negative or fails, or cts_monitor_init_ftdi fails at
\* ftdi_init, at the USB open or at the mode-set) returns 0 with the
\* controller initialized on the standard interface and using_ftdi = 0,
\* whenever none of open, tcgetattr, tcsetattr, fopen and the first TIOCMGET
\* fails.
C1_FallbackToStandard ==
    ( /\ InitRan
      /\ ~SucceededCall("ftdi_set_bitmode")
      /\ \A fn \in {"open", "tcgetattr", "tcsetattr", "fopen", "ioctl"} : ~FailedCall(fn) )
    => ( /\ ret = 0
         /\ initialized
         /\ ~using_ftdi
         /\ SucceededCall("open") )

\* an init whose FTDI open was attempted and failed, and which came back
\* successful on the standard interface
C1_Witness ==
    /\ InitRan
    /\ MadeCall("ftdi_init")
    /\ \/ FailedCall("ftdi_init")
       \/ FailedCall("ftdi_set_bitmode")
       \/ MadeCall("ftdi_deinit")
    /\ ret = 0
    /\ initialized
    /\ ~using_ftdi

\* C2: while the controller is initialized on the FTDI backend, a sample
\* taken by cts_monitor_update, cts_monitor_process_irq_events or
\* cts_monitor_get_state is read with ftdi_read_pins and never with the
\* TIOCMGET ioctl on the serial descriptor.
C2_ReadsThroughFtdi ==
    ( /\ initialized
      /\ using_ftdi
      /\ op \in {"update", "process_irq_events", "get_state"} )
    => ( /\ ~MadeCall("ioctl")
         /\ syscalls # <<>> => MadeCall("ftdi_read_pins") )

\* C3: the process exits with 0 after a requested stop or the help text, and
\* with a non-zero code after a configuration failure, an initialization
\* failure or a read failure in the monitoring loop.
C3_ExitCodes ==
    pc = "exit" =>
        /\ outcome \in {"help", "stop"} => exit_code = 0
        /\ outcome \in {"config_error", "init_failed", "irq_start_failed", "read_failure"}
               => exit_code # 0

\* C4: cts_monitor_update returns 0 whenever its backend read succeeded and
\* -1 only when it failed, on either backend.
C4_UpdateReturnsZero ==
    (op = "update" /\ ~crashed) =>
        /\ ret \in {0, -1}
        /\ ReadSucceeded => ret = 0
        /\ ret = -1 => ~ReadSucceeded

\* C5: a controller initialized for a /dev/ttyUSB* path whose adapter has a
\* vendor identifier other than 0x0403 uses the standard backend.
C5_NonFtdiAdapterIsStandard ==
    ( /\ initialized
      /\ UsbPath(current_config.serial_device)
      /\ tty_identity.vid # 1027 )
    => ~using_ftdi

\* C6 as stated: a cts_monitor_init for a path without the /dev/ttyUSB prefix
\* never enumerates the USB bus or attempts an FTDI open, and whenever it
\* returns success the backend in use is the standard one.
C6_AsStated ==
    (op = "init" /\ ~UsbPath(arg.serial_device)) =>
        /\ ~MadeCall("libusb_init")
        /\ ~MadeCall("ftdi_init")
        /\ ~MadeCall("ftdi_usb_open")
        /\ ret = 0 => ~using_ftdi

\* C6 amended: a cts_monitor_init for a path without the /dev/ttyUSB prefix
\* never enumerates the USB bus or attempts an FTDI open, and whenever it
\* found the controller uninitialized and returns success the backend in use
\* is the standard one.
C6_NonUsbPathIsStandard ==
    (op = "init" /\ ~UsbPath(arg.serial_device)) =>
        /\ ~MadeCall("libusb_init")
        /\ ~MadeCall("ftdi_init")
        /\ ~MadeCall("ftdi_usb_open")
        /\ (InitRan /\ ret = 0) => (initialized /\ ~using_ftdi /\ SucceededCall("open"))

\* a successful init of /dev/ttyS0 that found the controller uninitialized
C6_Witness ==
    /\ InitRan
    /\ arg.serial_device = DEV_TTYS0
    /\ ret = 0
    /\ initialized
    /\ ~using_ftdi

\* C7: a call of cts_monitor_update or cts_monitor_process_irq_events (on the
\* FTDI backend both go through cts_monitor_update_ftdi) whose read succeeded
\* emits exactly one event for each reported field that differs between
\* last_state and the new sample and none for an equal field, in the order
\* CTS, RTS, DSR, DTR.
C7_OneEventPerChange ==
    [][ (op' \in {"update", "process_irq_events"} /\ ReadSucceeded')
        => ( /\ ~crashed'
             /\ EventNames(emitted') =
                    ReportedChanges(last_state, last_state', current_config.verbose) )
      ]_vars

\* C8: a call that read a sample returns, and in it a CTS or RTS difference
\* between last_state and the sample produces an event whatever verbose is,
\* and a DSR or DTR difference produces one if and only if verbose is set.
C8_VerboseGatesDsrDtr ==
    [][ (op' \in {"update", "process_irq_events"} /\ ReadSucceeded')
        => ( /\ ~crashed'
             /\ last_state.cts # last_state'.cts => HasEvent(emitted', "CTS")
             /\ last_state.rts # last_state'.rts => HasEvent(emitted', "RTS")
             /\ HasEvent(emitted', "DSR")
                    <=> (current_config.verbose /\ last_state.dsr # last_state'.dsr)
             /\ HasEvent(emitted', "DTR")
                    <=> (current_config.verbose /\ last_state.dtr # last_state'.dtr) )
      ]_vars

\* C9: cts_monitor_cleanup on a controller that is not initialized (before any
\* init, or right after a cleanup) changes no static and no resource, writes
\* nothing, closes nothing and does not fail; and a cleanup that returns
\* leaves the controller uninitialized, so that a second one is such a call.
C9_CleanupIdempotent ==
    [][ op' = "cleanup"
        => ( /\ ~initialized
                  => ( /\ UNCHANGED LibState
                       /\ emitted' = <<>>
                       /\ syscalls' = <<>>
                       /\ ~wrote_unset'
                       /\ ~crashed' )
             /\ ~crashed' => ~initialized' )
      ]_vars

\* a cleanup that found the controller uninitialized after an earlier init
C9_Witness ==
    /\ op = "cleanup"
    /\ ~initialized
    /\ syscalls = <<>>
    /\ current_config # NoConfig
    /\ serial_fd = -1

\* C10: no initialized controller holds a polling interval below 100, and a
\* cts_monitor_init that is handed one fails before it opens any device.
C10_ShortIntervalRejected ==
    /\ initialized => current_config.poll_interval_us >= 100
    /\ (op = "init" /\ arg.poll_interval_us < 100)
           => (ret # 0 /\ ~MadeCall("open") /\ ~MadeCall("ftdi_usb_open"))

\* C11: once a signal has cleared `running`, the monitoring loop (polling or
\* event-driven) is left at its next test of the flag and cts_monitor_cleanup
\* is called before the process ends; and whenever main returns after a
\* successful cts_monitor_init, its last library call was cts_monitor_cleanup
\* and the controller is no longer initialized.
C11_CooperativeShutdown ==
    /\ [](( /\ pc = "exit"
            /\ outcome \notin {"help", "config_error", "init_failed"} )
          => (op = "cleanup" /\ ~initialized))
    /\ (pc \in {"start_irq", "loop"} /\ ~running)
           ~> (pc \in {"exit", "killed"} /\ op = "cleanup")

\* main returned after a signal stopped an event-driven loop
C11_Witness ==
    /\ pc = "exit"
    /\ ~running
    /\ outcome = "stop"
    /\ op = "cleanup"
    /\ config.mode = "IRQ"
    /\ ~initialized

\* the last library call had a backend read fail
ReadFailed == FailedCall("ioctl") \/ FailedCall("ftdi_read_pins")

\* C12: an iteration of the monitoring loop whose backend read fails ends the
\* loop in that same iteration with control at cts_monitor_cleanup, and from
\* then on no backend read is made: there is no retry.
C12_NoRetry ==
    [][ /\ ( /\ pc = "loop"
             /\ op' \in {"update", "process_irq_events"}
             /\ pc' # "killed"
             /\ ReadFailed' )
           => (pc' = "cleanup" /\ outcome' = "read_failure")
        /\ (outcome = "read_failure" /\ pc' # pc)
           => (~MadeCall("ioctl")' /\ ~MadeCall("ftdi_read_pins")')
      ]_vars

\* the event-driven loop was left after a failed read
C12_Witness ==
    /\ pc = "cleanup"
    /\ outcome = "read_failure"
    /\ op = "process_irq_events"
    /\ ReadFailed

\* C13: a cts_monitor_process_irq_events that returns gives either -1, and
\* then no sample was read, or the number of event lines it emitted during
\* the call (0 when no reported field changed), on either backend.
C13_IrqReturnsEventCount ==
    (op = "process_irq_events" /\ ~crashed) =>
        /\ ret >= -1
        /\ ret >= 0 => (ReadSucceeded /\ ret = Len(emitted))
        /\ ret = -1 => ~ReadSucceeded

\* C14: cts_monitor_init on an initialized controller returns 0 and changes
\* no static and no resource (stored configuration, backend and its handle,
\* output destination, last_state, time origin, event-driven flag), makes no
\* system call and writes nothing, whatever configuration it is handed.
C14_ReinitIsNoOp ==
    [][ (op' = "init" /\ initialized)
        => ( /\ ret' = 0
             /\ UNCHANGED LibState
             /\ syscalls' = <<>>
             /\ emitted' = <<>>
             /\ ~crashed' )
      ]_vars

\* an init on an initialized controller with a configuration that differs
\* from the stored one in every field
C14_Witness ==
    /\ op = "init"
    /\ initialized
    /\ arg # current_config
    /\ arg.serial_device # current_config.serial_device
    /\ ret = 0
    /\ syscalls = <<>>

\* C15: cts_monitor_start_irq on an initialized controller configured for
\* event-driven mode returns 0 with the event-driven flag set, changing
\* nothing else, and nothing at all when the flag was already set; on a
\* controller that is not initialized or is configured for polling it
\* returns -1 and changes nothing.
C15_StartIrqGuards ==
    [][ op' = "start_irq"
        => IF initialized /\ current_config.mode = "IRQ"
           THEN /\ ret' = 0
                /\ irq_mode_active'
                /\ irq_mode_active => UNCHANGED LibState
                /\ UNCHANGED <<initialized, serial_fd, output_fp, current_config,
                               last_state, start_time, ftdi_initialized, using_ftdi,
                               fd_open, file_open, ftdi_handle>>
                /\ ~crashed'
           ELSE /\ ret' = -1
                /\ UNCHANGED LibState
                /\ ~crashed'
      ]_vars

\* a start of event-driven mode refused on a controller configured for polling
C15_Witness ==
    /\ op = "start_irq"
    /\ initialized
    /\ current_config.mode = "POLLING"
    /\ ret = -1
    /\ ~irq_mode_active

\* C16: while `running` is set, an iteration of the monitoring loop whose
\* backend read succeeded stays in the loop, with or without transitions in
\* the sample, on either backend and in either mode.
C16_SuccessfulSampleKeepsLooping ==
    [][ ( /\ pc = "loop"
          /\ running
          /\ op' \in {"update", "process_irq_events"}
          /\ ReadSucceeded' )
        => pc' = "loop"
      ]_vars

\* C17: whenever the controller is initialized, output_fp is stdout or an
\* open file, and no call writes an event line or a banner through an unset
\* or closed stream.
C17_DestinationSet ==
    /\ initialized => DestValid(St)
    /\ ~wrote_unset

\* C18: a cts_monitor_init that ran and returned 0 captured a sample from the
\* backend it selected during that init, the sample last_state then holds;
\* last_state is never left at a value no read of this run produced.
C18_InitCapturesFirstSample ==
    (InitRan /\ ret = 0) =>
        /\ initialized
        /\ IF using_ftdi THEN SucceededCall("ftdi_read_pins") ELSE SucceededCall("ioctl")

\* the serial descriptor is open
SerialOpen == serial_fd >= 0 /\ fd_open

\* the FTDI context holds an open device
FtdiOpen == ftdi_handle = "open"

\* C19: while the controller is initialized exactly one backend handle is
\* open: the serial descriptor or the FTDI context, never both and never
\* neither, after any sequence of calls of the functions cts_monitor.h
\* declares.
C19_ExactlyOneBackend ==
    (initialized /\ ~crashed) => (SerialOpen /\ ~FtdiOpen) \/ (FtdiOpen /\ ~SerialOpen)

C21_FailedReadChangesNothing ==
    [][ (op' \in {"update", "process_irq_events", "update_ftdi"} /\ ReadFailed')
        => ( /\ ret' = -1
             /\ emitted' = <<>>
             /\ ~wrote_unset'
             /\ ~crashed'
             /\ UNCHANGED LibState )
      ]_vars

\* a failed read of the FTDI pins while the last sample had lines high
C21_Witness ==
    /\ op \in {"update", "update_ftdi"}
    /\ FailedCall("ftdi_read_pins")
    /\ ret = -1
    /\ initialized
    /\ using_ftdi
    /\ last_state.cts = 1

\* the statics and resources of record r, in the order of LibState
LibOf(r) ==
    <<r.initialized, r.serial_fd, r.output_fp, r.current_config, r.last_state,
      r.start_time, r.irq_mode_active, r.ftdi_initialized, r.using_ftdi,
      r.fd_open, r.file_open, r.ftdi_handle>>

\* C22: a cts_monitor_init that finds the controller uninitialized (first
\* use, after a cleanup or after a failed init) and returns 0 leaves the
\* statics and resources exactly as the same init leaves them in a fresh
\* process given the same configuration and the same answers of the system:
\* nothing of an earlier run remains.
C22_ReinitIsFresh ==
    [][ (op' = "init" /\ ~initialized /\ ret' = 0 /\ ~crashed')
        => \E d \in DetectFor(Fresh, arg') :
             \E f \in FtdiFor(Fresh, arg', d) :
               \E sd \in StdFor(Fresh, arg', d, f) :
                 \E now \in Times :
                   \E r \in {cts_monitor_init(Enter(Fresh, "init", arg'), arg',
                                              d, f, sd, now)} :
                       /\ r.syscalls = syscalls'
                       /\ r.emitted = emitted'
                       /\ LibOf(r) = LibState'
      ]_vars

\* C23: every close of the serial descriptor, fclose of the output file and
\* ftdi_usb_close of the FTDI context made by a library call is applied to a
\* handle that is open at that moment: none is closed twice, none is closed
\* that was never opened.
C23_ClosesOnlyOpenHandles ==
    \A i \in 1..Len(syscalls) :
        syscalls[i].fn \in {"close", "fclose", "ftdi_usb_close"} => syscalls[i].ok

\* the field of signal state st that an event line names
FieldOf(st, n) ==
    CASE n = "CTS" -> st.cts [] n = "RTS" -> st.rts [] n = "DSR" -> st.dsr
      [] n = "DTR" -> st.dtr [] OTHER -> -1

\* C24: every event line a sampling call emits carries the up arrow exactly
\* when the field it names was 0 in last_state before the call and is 1 in
\* the sample stored by the call, the down arrow exactly when it was 1 and is
\* 0, and the level HIGH exactly when the new value is 1 (LOW otherwise).
C24_DirectionAndLevel ==
    [][ op' \in {"update", "process_irq_events", "update_ftdi"}
        => \A i \in 1..Len(emitted') :
              LET e == emitted'[i]
                  was == FieldOf(last_state, e.name)
                  is == FieldOf(last_state', e.name)
              IN /\ e.arrow \in {"up", "down"}
                 /\ e.arrow = "up" <=> (was = 0 /\ is = 1)
                 /\ e.arrow = "down" <=> (was = 1 /\ is = 0)
                 /\ e.level \in {"HIGH", "LOW"}
                 /\ e.level = "HIGH" <=> is = 1
      ]_vars

\* a sampling call that reported all four lines falling
C24_Witness ==
    /\ op \in {"update", "process_irq_events"}
    /\ Len(emitted) = 4
    /\ emitted[1] = [name |-> "CTS", old |-> 1, new |-> 0,
                     level |-> "LOW", arrow |-> "down"]
    /\ emitted[4].name = "DTR"
    /\ emitted[4].arrow = "down"
    /\ last_state = ZeroState

\* the last library call tried ftdi_usb_open with product identifier p
TriedPid(p) ==
    \E i \in 1..Len(syscalls) : syscalls[i].fn = "ftdi_usb_open" /\ syscalls[i].arg = p

\* C26: when a cts_monitor_init reaches the FTDI open (detection was positive
\* and ftdi_init succeeded), every device on the bus that detection accepts
\* (vendor 0x0403 with a product identifier of DetectPids) has its product
\* identifier tried by ftdi_usb_open, unless an earlier attempt of the
\* sequence already opened a device.
C26_DetectedVariantIsTried ==
    (op = "init" /\ SucceededCall("ftdi_init"))
    => \/ SucceededCall("ftdi_usb_open")
       \/ \A dev \in usb_bus :
              (dev.vid = 1027 /\ dev.pid \in DetectPids) => TriedPid(dev.pid)

\* the clock reading the last get_timestamp took
SampleTime == syscalls[1].arg

\* text is <seconds>.<fraction>: one or more decimal digits, with or without
\* a minus sign before them, a point, and exactly six decimal digits
IsSecondsAndMicros(text) ==
    \E k \in 2..Len(text) :
        /\ text[k] = "."
        /\ Len(text) = k + 6
        /\ \A j \in (1..Len(text)) \ {k} :
              \/ \E d \in 1..10 : text[j] = DigitChars[d]
              \/ j = 1 /\ k > 2 /\ text[j] = "-"

\* C25: with time_format RELATIVE, whatever the clock reading and whatever
\* origin cts_monitor_init recorded (the reading may be earlier than the
\* origin), the buffer get_timestamp fills is <seconds>.<fraction> with a
\* fraction of exactly six decimal digits, and it is 0.000000 when the
\* reading equals the origin.
C25_RelativeStampFormat ==
    (op = "get_timestamp" /\ current_config.time_format = "RELATIVE")
    => /\ IsSecondsAndMicros(emitted[1])
       /\ SampleTime = start_time
              => emitted[1] = <<"0", ".", "0", "0", "0", "0", "0", "0">>

====
